---- MODULE Spec2Model ----
(***************************************************************************)
(* Settings lifecycle of the Habitica plugin (src/src/main.ts).            *)
(*                                                                         *)
(* The state is one plugin instance (its `settings` field and the position *)
(* of its onload), the module-level DEFAULT_SETTINGS object, the host's    *)
(* data.json, the items the plugin registered with the host, the text      *)
(* inputs rendered by HabiticaSettingTab.display, and the onChange handler *)
(* invocations whose saveData call is still outstanding.                   *)
(*                                                                         *)
(* JavaScript values are tagged records [type, val]; an object's val is    *)
(* the function from its own property names to their values.               *)
(***************************************************************************)
EXTENDS Integers, Sequences, FiniteSets, TLC

\* ------------------------------------------------------------------------
\* Bounds of the exploration
\* ------------------------------------------------------------------------
MaxChanges     == 2   \* onChange events delivered by the text inputs
MaxNotices     == 1   \* ribbon-icon clicks

\* ------------------------------------------------------------------------
\* JavaScript values
\* ------------------------------------------------------------------------
JsString(s)     == [type |-> "string", val |-> s]
JsNull          == [type |-> "null", val |-> ""]
JsUndefined     == [type |-> "undefined", val |-> ""]
JsObject(props) == [type |-> "object", val |-> props]
EmptyObject     == JsObject([k \in {} |-> JsNull])

\* the rejection of a loadData() or saveData() promise
StorageFailure  == [type |-> "error", val |-> "StorageFailure"]

Keys(o) == IF o.type = "object" THEN DOMAIN o.val ELSE {}

\* o[k]: reading a property an object does not own yields undefined
Get(o, k) == IF k \in Keys(o) THEN o.val[k] ELSE JsUndefined

\* o[k] = v on an object
Put(o, k, v) ==
    JsObject([x \in Keys(o) \cup {k} |-> IF x = k THEN v ELSE o.val[x]])

\* interface HabiticaPluginSettings: the two declared fields
Fields == {"apiToken", "userId"}

\* the literal that initialises DEFAULT_SETTINGS
DefaultLiteral == JsObject([apiToken |-> JsString(""), userId |-> JsString("")])

\* ------------------------------------------------------------------------
\* Inputs
\* ------------------------------------------------------------------------
\* What data.json may hold when the plugin is first enabled: nothing
\* (loadData() resolves to null), or a JSON object over the two fields and a
\* key the plugin does not know ("theme"), with string or null values.
Obj1(k, v)           == JsObject([x \in {k} |-> v])
Obj2(k1, v1, k2, v2) == JsObject([x \in {k1, k2} |-> IF x = k1 THEN v1 ELSE v2])
RawData ==
    { JsNull,
      EmptyObject,
      Obj1("apiToken", JsString("abc")),
      Obj1("userId", JsString("abc")),
      Obj1("apiToken", JsNull),
      Obj2("apiToken", JsString("abc"), "userId", JsString("uid")),
      Obj2("apiToken", JsString("abc"), "theme", JsString("dark")) }

\* What the user may type into a text input
TypedValues == {"", "xyz"}

VARIABLES
    pc,                \* position of the instance: Unloaded, Loading, Ready, Failed
    firstHandler,      \* index in handlers of the current instance's first handler
    loadCalls,         \* loadData() calls issued by the current instance
    raw,               \* outcome of the awaited loadData(): undefined while
                       \* pending, the resolved value, or StorageFailure
    settings,          \* this.settings
    DEFAULT_SETTINGS,  \* the module-level default object
    storage,           \* content of data.json
    settingTab,        \* TRUE while the HabiticaSettingTab is registered
    ribbonIcon,        \* TRUE while the ribbon icon is registered
    tabView,           \* the tab's inputs: "closed", "open", or "TypeError"
    changes,           \* onChange events delivered so far
    handlers,          \* onChange invocations, each with its saveData call
    lastOk,            \* index in handlers of the last saveData that succeeded
    notices,           \* Notice objects created
    clicks,            \* invocations of the ribbon icon's callback
    aliased,           \* TRUE if this.settings and DEFAULT_SETTINGS are one object
    prevLoad           \* the latest completed loadSettings(): the data it read
                       \* and the record it assigned

vars == <<pc, firstHandler, loadCalls, raw, settings, DEFAULT_SETTINGS, storage,
          settingTab, ribbonIcon, tabView, changes, handlers, lastOk, notices,
          clicks, aliased, prevLoad>>

\* ------------------------------------------------------------------------
\* Pure helpers
\* ------------------------------------------------------------------------
\* Variant: existing properties of the target are kept (precedence swapped).
ObjectAssign_TargetWins(target, source) ==
    IF source.type # "object" THEN target
    ELSE JsObject([k \in Keys(target) \cup Keys(source) |->
                     IF k \in Keys(target) THEN target.val[k] ELSE source.val[k]])

\* Object.assign(target, source): copies every own property of source onto
\* target, source winning; a null or undefined source is skipped.
ObjectAssign(target, source) ==
    IF source.type # "object" THEN target
    ELSE JsObject([k \in Keys(target) \cup Keys(source) |->
                     IF k \in Keys(source) THEN source.val[k] ELSE target.val[k]])

\* Variant: the defaults are left out of the merge.
loadSettings_NoDefaults(defaults, data) ==
    ObjectAssign(EmptyObject, data)

\* Variant: the defaults are merged last and overwrite the loaded data.
loadSettings_DefaultsLast(defaults, data) ==
    ObjectAssign(ObjectAssign(EmptyObject, data), defaults)

\* The value loadSettings assigns to this.settings:
\* Object.assign({}, DEFAULT_SETTINGS, data)
loadSettings(defaults, data) ==
    ObjectAssign(ObjectAssign(EmptyObject, defaults), data)

\* Variant: only the apiToken property is handed to saveData.
saveSettings_OnlyToken(this_settings) ==
    [data |-> JsObject([k \in Keys(this_settings) \cap {"apiToken"} |->
                          this_settings.val[k]]),
     saveCalls |-> 1, backend |-> "pending", status |-> "pending"]

\* saveSettings(): one saveData(this.settings) call, awaited.  The host
\* serialises its argument when called, so the call carries the record as it
\* stands at that moment.
saveSettings(this_settings) ==
    [data |-> this_settings, saveCalls |-> 1,
     backend |-> "pending", status |-> "pending"]

\* no loadSettings() has completed yet
NoLoad == [data |-> JsUndefined, record |-> JsUndefined]

\* ------------------------------------------------------------------------
\* Initial state: the plugin is installed and not yet enabled
\* ------------------------------------------------------------------------
Init ==
    /\ pc = "Unloaded"
    /\ firstHandler = 1
    /\ loadCalls = 0
    /\ raw = JsUndefined
    /\ settings = JsUndefined
    /\ DEFAULT_SETTINGS = DefaultLiteral
    /\ storage \in RawData
    /\ settingTab = FALSE
    /\ ribbonIcon = FALSE
    /\ tabView = "closed"
    /\ changes = 0
    /\ handlers = << >>
    /\ lastOk = 0
    /\ notices = 0
    /\ clicks = 0
    /\ aliased = FALSE
    /\ prevLoad = NoLoad

\* ------------------------------------------------------------------------
\* onload
\* ------------------------------------------------------------------------
\* Variant: loadSettings() is not awaited, the registrations run at once.
Onload_NoAwait ==
    /\ pc \in {"Unloaded", "Failed"}
    /\ firstHandler' = Len(handlers) + 1
    /\ pc' = "Loading"
    /\ loadCalls' = 1
    /\ raw' = JsUndefined
    /\ settings' = JsUndefined
    /\ settingTab' = TRUE
    /\ ribbonIcon' = TRUE
    /\ tabView' = "closed"
    /\ aliased' = FALSE
    /\ UNCHANGED <<DEFAULT_SETTINGS, storage, changes, handlers, lastOk, notices,
                   clicks, prevLoad>>

\* The host enables the plugin: a new instance (settings not yet assigned)
\* runs onload up to `await this.loadSettings()`, which has called loadData().
Onload ==
    /\ pc \in {"Unloaded", "Failed"}
    /\ firstHandler' = Len(handlers) + 1
    /\ pc' = "Loading"
    /\ loadCalls' = 1
    /\ raw' = JsUndefined
    /\ settings' = JsUndefined
    /\ settingTab' = FALSE
    /\ ribbonIcon' = FALSE
    /\ tabView' = "closed"
    /\ aliased' = FALSE
    /\ UNCHANGED <<DEFAULT_SETTINGS, storage, changes, handlers, lastOk, notices,
                   clicks, prevLoad>>

\* Variant: with nothing stored, the default object itself becomes the record:
\* this.settings = (await this.loadData()) ? Object.assign({}, ...) : DEFAULT_SETTINGS
LoadDataResolve_SharesDefaults ==
    /\ pc = "Loading"
    /\ raw' = storage
    /\ settings' = IF Keys(storage) = {} THEN DEFAULT_SETTINGS
                   ELSE loadSettings(DEFAULT_SETTINGS, storage)
    /\ aliased' = (Keys(storage) = {})
    /\ prevLoad' = [data |-> storage, record |-> settings']
    /\ settingTab' = TRUE
    /\ ribbonIcon' = TRUE
    /\ pc' = "Ready"
    /\ UNCHANGED <<firstHandler, loadCalls, DEFAULT_SETTINGS, storage, tabView,
                   changes, handlers, lastOk, notices, clicks>>

\* Variant: the merge targets DEFAULT_SETTINGS itself, not a fresh object:
\* this.settings = Object.assign(DEFAULT_SETTINGS, data)
LoadDataResolve_IntoDefaults ==
    /\ pc = "Loading"
    /\ raw' = storage
    /\ DEFAULT_SETTINGS' = ObjectAssign(DEFAULT_SETTINGS, storage)
    /\ settings' = DEFAULT_SETTINGS'
    /\ aliased' = TRUE
    /\ prevLoad' = [data |-> storage, record |-> settings']
    /\ settingTab' = TRUE
    /\ ribbonIcon' = TRUE
    /\ pc' = "Ready"
    /\ UNCHANGED <<firstHandler, loadCalls, storage, tabView,
                   changes, handlers, lastOk, notices, clicks>>

\* loadData() resolves with the content of data.json: loadSettings assigns
\* this.settings, and onload goes on to addSettingTab and addRibbonIcon.
LoadDataResolve ==
    /\ pc = "Loading"
    /\ raw' = storage
    /\ settings' = loadSettings(DEFAULT_SETTINGS, storage)
    /\ aliased' = FALSE
    /\ prevLoad' = [data |-> storage, record |-> settings']
    /\ settingTab' = TRUE
    /\ ribbonIcon' = TRUE
    /\ pc' = "Ready"
    /\ UNCHANGED <<firstHandler, loadCalls, DEFAULT_SETTINGS, storage, tabView,
                   changes, handlers, lastOk, notices, clicks>>

\* Variant: the failure is caught and onload carries on with the defaults.
LoadDataReject_Caught ==
    /\ pc = "Loading"
    /\ raw' = StorageFailure
    /\ settings' = loadSettings(DEFAULT_SETTINGS, JsNull)
    /\ settingTab' = TRUE
    /\ ribbonIcon' = TRUE
    /\ pc' = "Ready"
    /\ UNCHANGED <<firstHandler, loadCalls, DEFAULT_SETTINGS, storage, tabView,
                   changes, handlers, lastOk, notices,
                   clicks, aliased, prevLoad>>

\* loadData() rejects: the await in loadSettings throws, the await in onload
\* throws, and onload's promise rejects before anything is registered.
LoadDataReject ==
    /\ pc = "Loading"
    /\ raw' = StorageFailure
    /\ pc' = "Failed"
    /\ UNCHANGED <<firstHandler, loadCalls, settings, DEFAULT_SETTINGS,
                   storage, settingTab, ribbonIcon, tabView, changes, handlers,
                   lastOk, notices,
                   clicks, aliased, prevLoad>>

\* Variant: onunload writes the record to data.json before returning.
Onunload_Flush ==
    /\ pc = "Ready"
    /\ pc' = "Unloaded"
    /\ storage' = settings
    /\ settingTab' = FALSE
    /\ ribbonIcon' = FALSE
    /\ tabView' = "closed"
    /\ UNCHANGED <<firstHandler, loadCalls, raw, settings, DEFAULT_SETTINGS,
                   changes, handlers, lastOk, notices,
                   clicks, aliased, prevLoad>>

\* onunload only logs; the host drops what the instance registered.
Onunload ==
    /\ pc = "Ready"
    /\ pc' = "Unloaded"
    /\ settingTab' = FALSE
    /\ ribbonIcon' = FALSE
    /\ tabView' = "closed"
    /\ UNCHANGED <<firstHandler, loadCalls, raw, settings, DEFAULT_SETTINGS,
                   storage, changes, handlers, lastOk, notices,
                   clicks, aliased, prevLoad>>

\* Variant: the callback also resets the record to the defaults.
RibbonClick_Resets ==
    /\ ribbonIcon
    /\ clicks < MaxNotices
    /\ clicks' = clicks + 1
    /\ notices' = notices + 1
    /\ settings' = loadSettings(DEFAULT_SETTINGS, JsNull)
    /\ UNCHANGED <<pc, firstHandler, loadCalls, raw, DEFAULT_SETTINGS,
                   storage, settingTab, ribbonIcon, tabView, changes, handlers,
                   lastOk, aliased, prevLoad>>

\* Variant: the callback calls loadSettings() again before notifying.
RibbonClick_Reloads ==
    /\ ribbonIcon
    /\ clicks < MaxNotices
    /\ clicks' = clicks + 1
    /\ notices' = notices + 1
    /\ loadCalls' = loadCalls + 1
    /\ raw' = JsUndefined
    /\ UNCHANGED <<pc, firstHandler, settings, DEFAULT_SETTINGS,
                   storage, settingTab, ribbonIcon, tabView, changes, handlers,
                   lastOk, aliased, prevLoad>>

\* The ribbon icon's callback: new Notice(...)
RibbonClick ==
    /\ ribbonIcon
    /\ clicks < MaxNotices
    /\ clicks' = clicks + 1
    /\ notices' = notices + 1
    /\ UNCHANGED <<pc, firstHandler, loadCalls, raw, settings, DEFAULT_SETTINGS,
                   storage, settingTab, ribbonIcon, tabView, changes, handlers,
                   lastOk, aliased, prevLoad>>

\* ------------------------------------------------------------------------
\* HabiticaSettingTab
\* ------------------------------------------------------------------------
\* display(): the host renders the registered tab; each input is set to the
\* field's current value.  Reading a field of an unassigned settings throws.
Display ==
    /\ settingTab
    /\ tabView' = IF settings.type = "object" THEN "open" ELSE "TypeError"
    /\ UNCHANGED <<pc, firstHandler, loadCalls, raw, settings, DEFAULT_SETTINGS,
                   storage, settingTab, ribbonIcon, changes, handlers, lastOk,
                   notices,
                   clicks, aliased, prevLoad>>

\* the saveData calls that have not settled yet
Pending == {i \in 1..Len(handlers) : handlers[i].backend = "pending"}

\* The event an input delivers to its onChange handler: which input fired,
\* the text typed, the record as the handler's assignment left it, and
\* whether an earlier handler's saveData was still outstanding at that time.
ChangeEvent(f, value, record) ==
    [field |-> f, value |-> value, record |-> record, overlaps |-> Pending # {}]

\* An onChange handler can run: the tab is registered and its inputs rendered.
CanType == settingTab /\ tabView = "open" /\ changes < MaxChanges

\* The two onChange handlers have the same shape, for field f:
\*   this.plugin.settings.f = value; await this.plugin.saveSettings();
\* The handler runs up to the saveData call inside saveSettings and suspends.
\* The assignment writes to the object this.settings refers to.
OnChange(f, value) ==
    /\ CanType
    /\ changes' = changes + 1
    /\ settings' = Put(settings, f, JsString(value))
    /\ DEFAULT_SETTINGS' = IF aliased THEN settings' ELSE DEFAULT_SETTINGS
    /\ handlers' = Append(handlers,
                          ChangeEvent(f, value, settings') @@ saveSettings(settings'))
    /\ UNCHANGED <<pc, firstHandler, loadCalls, raw, storage,
                   settingTab, ribbonIcon, tabView, lastOk, notices,
                   clicks, aliased, prevLoad>>

\* API Token input, lines 145-148
OnChangeApiToken(value) == OnChange("apiToken", value)

\* Variant: the User ID handler assigns apiToken.
OnChangeUserId_WrongField(value) ==
    /\ CanType
    /\ changes' = changes + 1
    /\ settings' = Put(settings, "apiToken", JsString(value))
    /\ handlers' = Append(handlers,
                          ChangeEvent("userId", value, settings') @@ saveSettings(settings'))
    /\ UNCHANGED <<pc, firstHandler, loadCalls, raw, DEFAULT_SETTINGS, storage,
                   settingTab, ribbonIcon, tabView, lastOk, notices,
                   clicks, aliased, prevLoad>>

\* Variant: the User ID handler does not call saveSettings().
OnChangeUserId_NoSave(value) ==
    /\ CanType
    /\ changes' = changes + 1
    /\ settings' = Put(settings, "userId", JsString(value))
    /\ UNCHANGED <<pc, firstHandler, loadCalls, raw, DEFAULT_SETTINGS, storage,
                   settingTab, ribbonIcon, tabView, handlers, lastOk, notices,
                   clicks, aliased, prevLoad>>

\* User ID input, lines 156-159
OnChangeUserId(value) == OnChange("userId", value)

\* ------------------------------------------------------------------------
\* The host completes a saveData call
\* ------------------------------------------------------------------------
\* saveData resolves: data.json now holds what the call carried; the awaits
\* in saveSettings and in the handler return.
SaveDataResolve(i) ==
    /\ i \in Pending
    /\ storage' = handlers[i].data
    /\ handlers' = [handlers EXCEPT ![i].backend = "ok", ![i].status = "fulfilled"]
    /\ lastOk' = i
    /\ UNCHANGED <<pc, firstHandler, loadCalls, raw, settings, DEFAULT_SETTINGS,
                   settingTab, ribbonIcon, tabView, changes, notices,
                   clicks, aliased, prevLoad>>

\* Variant: the failure is swallowed and the handler's promise fulfils.
SaveDataReject_Masked(i) ==
    /\ i \in Pending
    /\ handlers' = [handlers EXCEPT ![i].backend = "failed", ![i].status = "fulfilled"]
    /\ UNCHANGED <<pc, firstHandler, loadCalls, raw, settings, DEFAULT_SETTINGS,
                   storage, settingTab, ribbonIcon, tabView, changes, lastOk,
                   notices,
                   clicks, aliased, prevLoad>>

\* saveData rejects: data.json is untouched; the await in saveSettings
\* throws, the await in the handler throws, the handler's promise rejects.
SaveDataReject(i) ==
    /\ i \in Pending
    /\ handlers' = [handlers EXCEPT ![i].backend = "failed", ![i].status = "rejected"]
    /\ UNCHANGED <<pc, firstHandler, loadCalls, raw, settings, DEFAULT_SETTINGS,
                   storage, settingTab, ribbonIcon, tabView, changes, lastOk,
                   notices,
                   clicks, aliased, prevLoad>>

Next ==
    \/ Onload
    \/ LoadDataResolve
    \/ LoadDataReject
    \/ Onunload
    \/ RibbonClick
    \/ Display
    \/ \E value \in TypedValues : OnChangeApiToken(value)
    \/ \E value \in TypedValues : OnChangeUserId(value)
    \/ \E i \in 1..MaxChanges : SaveDataResolve(i)
    \/ \E i \in 1..MaxChanges : SaveDataReject(i)

Spec == Init /\ [][Next]_vars

\* ------------------------------------------------------------------------
\* Properties
\* ------------------------------------------------------------------------
\* handlers started by the current instance
Current == firstHandler..Len(handlers)

\* the current instance has loaded and no input has fired since
FreshlyLoaded == pc = "Ready" /\ Current = {}

Max(S) == CHOOSE x \in S : \A y \in S : y <= x

\* the current instance's latest onChange invocations for field f
EditsOf(f) == {i \in Current : handlers[i].field = f}

\* C1: right after loadSettings(), each declared field missing from the
\* data loadData() returned holds its default, the empty string, and each
\* field present in it holds the returned value.
LoadFillsDefaults ==
    FreshlyLoaded =>
        \A f \in Fields :
            Get(settings, f) = IF f \in Keys(raw) THEN raw.val[f] ELSE JsString("")

\* Scenario 2: data.json holds {apiToken: "abc"}
LoadFillsDefaultsWitness ==
    /\ FreshlyLoaded
    /\ raw = Obj1("apiToken", JsString("abc"))
    /\ settings = JsObject([apiToken |-> JsString("abc"), userId |-> JsString("")])

\* C2: the in-memory record never has a property other than apiToken and
\* userId, and no saveData call is ever given one.
UnknownFieldsDropped ==
    /\ settings.type = "object" => Keys(settings) \subseteq Fields
    /\ \A i \in 1..Len(handlers) : Keys(handlers[i].data) \subseteq Fields

RoundTrip ==
    [][(pc = "Loading" /\ pc' = "Ready" /\ lastOk # 0)
          => settings' = handlers[lastOk].record]_vars

\* Scenario 3: from defaults, apiToken := "xyz", persisted, loaded afresh
RoundTripWitness ==
    /\ FreshlyLoaded
    /\ lastOk # 0
    /\ settings = handlers[lastOk].record
    /\ settings = JsObject([apiToken |-> JsString("xyz"), userId |-> JsString("")])

\* C5: an onChange event sets its own field to the typed value and leaves
\* every other property as it was; hence each field edited by the current
\* instance holds the value of its latest edit.
UpdateFrame ==
    /\ [](settings.type = "object" =>
            \A f \in Fields :
                EditsOf(f) # {} =>
                    Get(settings, f) = JsString(handlers[Max(EditsOf(f))].value))
    /\ [][(changes' = changes + 1 /\ Len(handlers') = Len(handlers) + 1) =>
            LET h == handlers'[Len(handlers')] IN
            /\ Get(settings', h.field) = JsString(h.value)
            /\ Keys(settings') = Keys(settings) \cup {h.field}
            /\ \A k \in Keys(settings) \ {h.field} :
                  Get(settings', k) = Get(settings, k)]_vars

UpdateFrameWitness ==
    /\ pc = "Ready"
    /\ Len(handlers) = 2
    /\ firstHandler = 1
    /\ handlers[1].field = "userId" /\ handlers[1].value = "xyz"
    /\ handlers[2].field = "apiToken" /\ handlers[2].value = ""
    /\ raw = Obj2("apiToken", JsString("abc"), "userId", JsString("uid"))
    /\ settings = JsObject([apiToken |-> JsString(""), userId |-> JsString("xyz")])

\* C6: while the load is outstanding nothing is registered, no input is
\* rendered and no edit has been handled; whatever is registered or rendered
\* sees an assigned settings record.
LoadBeforeRegister ==
    /\ pc = "Loading" =>
          /\ ~settingTab /\ ~ribbonIcon
          /\ tabView = "closed"
          /\ Current = {}
    /\ (settingTab \/ ribbonIcon \/ tabView # "closed") =>
          /\ settings.type = "object"
          /\ raw.type \in {"object", "null"}
    /\ tabView # "TypeError"

LoadBeforeRegisterWitness ==
    /\ pc = "Ready"
    /\ settingTab /\ ribbonIcon
    /\ tabView = "open"
    /\ raw = Obj1("userId", JsString("abc"))
    /\ Get(settings, "userId") = JsString("abc")

\* C7: when loadData() has failed, onload has failed with it: the instance
\* is not Ready, has registered nothing, holds no settings, and has called
\* loadData() once.
LoadFailureAborts ==
    raw = StorageFailure =>
        /\ pc = "Failed"
        /\ ~settingTab /\ ~ribbonIcon
        /\ tabView = "closed"
        /\ settings = JsUndefined
        /\ loadCalls = 1

LoadFailureAbortsWitness ==
    /\ pc = "Failed"
    /\ raw = StorageFailure
    /\ lastOk # 0

\* C8: a failed saveData rejects its handler after a single attempt, and
\* changes neither the in-memory record, which keeps the latest edit of each
\* field, nor data.json, which holds what the last successful save wrote.
SaveFailureKeepsState ==
    /\ [](/\ \A i \in 1..Len(handlers) :
               handlers[i].backend = "failed" =>
                   handlers[i].status = "rejected" /\ handlers[i].saveCalls = 1
          /\ lastOk # 0 => storage = handlers[lastOk].data
          /\ \A i \in Current :
               (handlers[i].backend = "failed" /\ i = Max(EditsOf(handlers[i].field)))
                   => Get(settings, handlers[i].field) = JsString(handlers[i].value))
    /\ [][(\E i \in 1..Len(handlers) :
               handlers[i].backend = "pending" /\ handlers'[i].backend = "failed")
            => settings' = settings /\ storage' = storage /\ lastOk' = lastOk]_vars

\* Scenario 4: the save after a second edit fails; data.json keeps the first
SaveFailureKeepsStateWitness ==
    /\ pc = "Ready"
    /\ Len(handlers) = 2
    /\ firstHandler = 1
    /\ lastOk = 1
    /\ handlers[2].backend = "failed"
    /\ handlers[2].status = "rejected"
    /\ handlers[2].field = "apiToken"
    /\ Get(settings, "apiToken") = JsString("xyz")
    /\ Get(storage, "apiToken") = JsString("")
    /\ storage = handlers[1].data

\* C9: when the saveData call of an onChange handler succeeds, data.json
\* becomes exactly the record as that handler's assignment left it: both
\* fields, the edited one holding the typed value.
SaveObservesUpdate ==
    [][\A i \in 1..Len(handlers) :
          (handlers[i].backend = "pending" /\ handlers'[i].backend = "ok") =>
              /\ storage' = handlers[i].record
              /\ Fields \subseteq Keys(storage')
              /\ Get(storage', handlers[i].field) = JsString(handlers[i].value)]_vars

SaveObservesUpdateWitness ==
    /\ lastOk # 0
    /\ raw = Obj2("apiToken", JsString("abc"), "userId", JsString("uid"))
    /\ handlers[lastOk].field = "userId"
    /\ storage = JsObject([apiToken |-> JsString("abc"), userId |-> JsString("xyz")])
    /\ settings = storage

\* C10: every onChange event changes at most its one field and starts exactly
\* one saveData call, which carries the record the assignment produced; the
\* record changes in no other way while the instance is Ready.
ChangeAlwaysPersists ==
    /\ [](/\ Len(handlers) = changes
          /\ \A i \in 1..Len(handlers) : handlers[i].saveCalls = 1)
    /\ [][changes' = changes + 1 =>
            /\ Len(handlers') = Len(handlers) + 1
            /\ SubSeq(handlers', 1, Len(handlers)) = handlers
            /\ LET h == handlers'[Len(handlers')] IN
               /\ h.backend = "pending" /\ h.status = "pending"
               /\ h.data = settings'
               /\ \A k \in Keys(settings) \ {h.field} :
                     Get(settings', k) = Get(settings, k)]_vars
    /\ [][(pc = "Ready" /\ pc' = "Ready" /\ settings' # settings)
            => changes' = changes + 1]_vars

ChangeAlwaysPersistsWitness ==
    /\ changes = 2
    /\ Len(handlers) = 2
    /\ handlers[1].field = "apiToken"
    /\ handlers[2].field = "userId"
    /\ handlers[1].backend = "pending"
    /\ handlers[2].backend = "pending"
    /\ handlers[2].data = settings

\* C11: each invocation of the ribbon icon's callback creates exactly one
\* Notice and changes nothing else: not the record, not data.json, not the
\* lifecycle, the registrations or the pending saves.
SyncTriggerOnlyNotifies ==
    /\ [](notices = clicks)
    /\ [][clicks' # clicks =>
            /\ clicks' = clicks + 1
            /\ notices' = notices + 1
            /\ UNCHANGED <<pc, firstHandler, loadCalls, raw, settings,
                           DEFAULT_SETTINGS, storage, settingTab, ribbonIcon,
                           tabView, changes, handlers, lastOk, aliased,
                           prevLoad>>]_vars

\* Scenario 5, with an edited and persisted record in place
SyncTriggerOnlyNotifiesWitness ==
    /\ pc = "Ready"
    /\ clicks = 1
    /\ notices = 1
    /\ lastOk # 0
    /\ settings = storage
    /\ Get(settings, "apiToken") = JsString("xyz")

\* C12: a loadSettings() that reads the same data as the loadSettings()
\* before it assigns an equal record, whatever was edited in between.
LoadIdempotent ==
    [][(pc = "Loading" /\ pc' = "Ready" /\ prevLoad # NoLoad
          /\ prevLoad.data = storage)
          => settings' = prevLoad.record]_vars

\* a second load of {apiToken: "abc"}, after an edit whose save failed
LoadIdempotentWitness ==
    /\ FreshlyLoaded
    /\ firstHandler > 1
    /\ lastOk = 0
    /\ raw = Obj1("apiToken", JsString("abc"))
    /\ prevLoad.data = raw
    /\ settings = JsObject([apiToken |-> JsString("abc"), userId |-> JsString("")])
    /\ handlers[1].record # settings

\* C13: the instance moves Unloaded -> Loading -> Ready -> Unloaded (or
\* Loading -> Failed when the load fails); a loadData() call is outstanding
\* exactly while it is Loading, only onload starts one, once per instance;
\* Ready is left only by onunload, which drops the registrations and touches
\* neither the record nor data.json.
Lifecycle ==
    /\ [](/\ pc \in {"Unloaded", "Loading", "Ready", "Failed"}
          /\ loadCalls <= 1
          /\ (loadCalls > 0 /\ raw = JsUndefined) <=> pc = "Loading")
    /\ [][pc' # pc =>
            \/ pc \in {"Unloaded", "Failed"} /\ pc' = "Loading"
            \/ pc = "Loading" /\ pc' \in {"Ready", "Failed"}
            \/ pc = "Ready" /\ pc' = "Unloaded"]_vars
    /\ [][loadCalls' # loadCalls =>
            pc \in {"Unloaded", "Failed"} /\ pc' = "Loading" /\ loadCalls' = 1]_vars
    /\ [][(pc = "Ready" /\ pc' # "Ready") =>
            /\ pc' = "Unloaded"
            /\ ~settingTab' /\ ~ribbonIcon'
            /\ UNCHANGED <<settings, storage, handlers, loadCalls, raw>>]_vars

\* a second activation, edited in and unloaded again
LifecycleWitness ==
    /\ pc = "Unloaded"
    /\ loadCalls = 1
    /\ firstHandler = 2
    /\ Len(handlers) = 2
    /\ raw = handlers[1].data
    /\ clicks = 1

\* C14: after onunload, if every saveData call has succeeded, what the next
\* activation would load equals the record the unloaded instance held.
UnloadLosesNothing ==
    (/\ pc = "Unloaded"
     /\ settings.type = "object"
     /\ \A i \in 1..Len(handlers) : handlers[i].backend = "ok")
        => loadSettings(DEFAULT_SETTINGS, storage) = settings

\* C15: data.json changes only when the saveData call of an onChange handler
\* succeeds, and then to what that call carried; onload, loadSettings,
\* display, the ribbon callback and onunload leave it as it is.
OnlySaveWrites ==
    [][storage' # storage =>
          /\ \E i \in 1..Len(handlers) :
                /\ handlers[i].backend = "pending"
                /\ handlers'[i].backend = "ok"
                /\ storage' = handlers[i].data
          /\ UNCHANGED <<pc, settingTab, ribbonIcon, tabView, clicks, notices,
                         loadCalls>>]_vars

OnlySaveWritesWitness ==
    /\ pc = "Unloaded"
    /\ clicks = 1
    /\ lastOk = 1
    /\ Len(handlers) = 2
    /\ handlers[2].backend = "pending"
    /\ storage = handlers[1].data
    /\ storage # raw
    /\ storage # settings

\* C16: once every saveData call has succeeded, data.json equals the
\* in-memory record, also when an edit was handled while an earlier save was
\* still outstanding.
NoLostEdit ==
    (/\ settings.type = "object"
     /\ \E i \in Current : handlers[i].overlaps
     /\ \A i \in 1..Len(handlers) : handlers[i].backend = "ok")
        => storage = settings

\* C17: DEFAULT_SETTINGS stays {apiToken: "", userId: ""}, and a load that
\* finds nothing stored assigns a record equal to it, whatever was edited
\* before.
DefaultsNeverMutated ==
    /\ [](DEFAULT_SETTINGS = DefaultLiteral)
    /\ [][(pc = "Loading" /\ pc' = "Ready" /\ Keys(storage) = {})
            => settings' = DefaultLiteral]_vars

\* Scenario 1 again, after an edit whose save did not succeed
DefaultsNeverMutatedWitness ==
    /\ FreshlyLoaded
    /\ firstHandler = 2
    /\ raw = JsNull
    /\ handlers[1].value = "xyz"
    /\ handlers[1].backend = "failed"
    /\ settings = DefaultLiteral
    /\ DEFAULT_SETTINGS = DefaultLiteral

====
